---- MODULE Spec2Model ----
(***************************************************************************)
(* Model of src/main.py: the IQOptionTrader trading loop.                  *)
(*                                                                         *)
(* Money: the stake (self.amount) is a Python int.  A settled profit/loss  *)
(* (the float returned by check_win_v3) is held in thousandths, so -13225  *)
(* is -13.225.  abs(win) + abs(win) * .15 is then |win| * 115 in units of  *)
(* 1/100000, and round() is Python 3's round-half-to-even.                 *)
(* Prices: candle prices are small integers (ticks); the EMAs are kept in  *)
(* fixed point with 1000 sub-units per tick.                                *)
(***************************************************************************)
EXTENDS Integers, Sequences, FiniteSets, TLC

\* ---------------------------------------------------------------- bounds
MaxOrders == 4          \* accepted orders per behaviour
MaxCandles == 22        \* longest candle series the data client returns

\* ----------------------------------------------------- program constants
MarginPct == 15         \* the .15 of abs(win) * .15
Window == 20            \* rolling(window=20)
SpanCross == 12         \* ewm(span=12)
SpanTrend == 50         \* ewm(span=50)
SpanBase == 200         \* ewm(span=200)
BandMult == 2           \* SMA +/- 2 * STD
MinRows == 2            \* len(price_data) < 2

\* ------------------------------------------------------------ input sets
\* START_BET and MAX_MARTINGEL as parsed by _load_config
StartBets == {10}
MaxMartingels == {0, 3}
\* profit/loss amounts check_win_v3 may return, in thousandths
Outcomes == {-13225, -11500, -10000, -200, 0, 8500}

VARIABLES
  environ,        \* whether os.environ holds every required field, well typed
  session,        \* what _initialize_connection left in self.account
  start_bet,      \* self.config.start_bet
  max_martingel,  \* self.config.max_martingel
  amount,         \* self.amount
  mm,             \* self.mm
  direction,      \* self.direction
  TempLose,       \* self.TempLose (thousandths)
  MaxLose,        \* self.MaxLose (thousandths)
  gameWin,        \* self.gameWin
  gameLose,       \* self.gameLose
  pc,             \* position of run()/create_order()
  candles,        \* reply of account.get_candles, kept until account.buy is called
  analysis,       \* the return statement _analyze_market last took
  signal,         \* local `direction` of create_order: result of _analyze_market
  status,         \* local `status` of create_order: result of account.buy
  caught,         \* create_order's `except Exception` ran in this iteration
  interrupted,    \* a KeyboardInterrupt has been delivered
  pending,        \* orders opened at the broker and not yet settled
  abandoned,      \* orders whose outcome wait ended without an outcome
  sent,           \* stake of every accepted order, in order
  hist            \* every settled profit/loss, in order

stakeVars == <<amount, mm, TempLose, MaxLose, gameWin, gameLose>>
configVars == <<environ, session, start_bet, max_martingel>>
vars == <<environ, session, start_bet, max_martingel, amount, mm, direction, TempLose, MaxLose,
          gameWin, gameLose, pc, candles, analysis, signal, status, caught,
          interrupted, pending, abandoned, sent, hist>>

\* ---------------------------------------------------------------- helpers
Abs(x) == IF x < 0 THEN -x ELSE x

\* Python 3 round(num/den) for num >= 0, den > 0: ties go to the even integer
Round(num, den) ==
  LET q == num \div den
      r == num % den
  IN IF 2 * r < den THEN q
     ELSE IF 2 * r > den THEN q + 1
     ELSE IF q % 2 = 0 THEN q ELSE q + 1

\* round((abs(win) + (abs(win) * .15)))
StakeDropsMargin(win) == Round(Abs(win) * 100, 100 * 1000)

StakeIncrementRefund(win) == 0 - Round(Abs(win) * (100 + MarginPct), 100 * 1000)

StakeIncrement(win) == Round(Abs(win) * (100 + MarginPct), 100 * 1000)

\* if win < 0
IsLossZero(win) == win <= 0

IsLoss(win) == win < 0

\* if self.mm > self.config.max_martingel
CapExceededGeq(m) == m >= max_martingel

CapExceededLate(m) == m > max_martingel + 1

CapExceeded(m) == m > max_martingel

NoReply == [kind |-> "none", data |-> <<>>]

\* ------------------------------------------------------------------ Init
\* the trader once __init__ has returned with a connected session
Init ==
  /\ environ = "valid"
  /\ session = "ok"
  /\ start_bet \in StartBets
  /\ max_martingel \in MaxMartingels
  /\ amount = start_bet
  /\ mm = 0
  /\ direction = "call"
  /\ TempLose = 0
  /\ MaxLose = 0
  /\ gameWin = 0
  /\ gameLose = 0
  /\ pc = "loop"
  /\ candles = NoReply
  /\ analysis = "none"
  /\ signal = "none"
  /\ status = "none"
  /\ caught = FALSE
  /\ interrupted = FALSE
  /\ pending = 0
  /\ abandoned = 0
  /\ sent = <<>>
  /\ hist = <<>>

\* ------------------------------------------------------ Stake Controller
\* the branch `if win < 0` of _handle_order_result
HandleLossNoCap(win) ==
  /\ amount' = amount + StakeIncrement(win)
  /\ mm' = mm + 1
  /\ gameLose' = gameLose + 1
  /\ TempLose' = TempLose + win
  /\ MaxLose' = IF TempLose + win < MaxLose THEN TempLose + win ELSE MaxLose
  /\ UNCHANGED gameWin

HandleLossStaleMax(win) ==
  /\ amount' = IF CapExceeded(mm + 1) THEN start_bet
               ELSE amount + StakeIncrement(win)
  /\ mm' = IF CapExceeded(mm + 1) THEN 0 ELSE mm + 1
  /\ gameLose' = gameLose + 1
  /\ TempLose' = TempLose + win
  /\ MaxLose' = IF TempLose < MaxLose THEN TempLose ELSE MaxLose
  /\ UNCHANGED gameWin

HandleLossClearsRun(win) ==
  /\ amount' = IF CapExceeded(mm + 1) THEN start_bet
               ELSE amount + StakeIncrement(win)
  /\ mm' = IF CapExceeded(mm + 1) THEN 0 ELSE mm + 1
  /\ gameLose' = gameLose + 1
  /\ TempLose' = IF CapExceeded(mm + 1) THEN 0 ELSE TempLose + win
  /\ MaxLose' = IF TempLose + win < MaxLose THEN TempLose + win ELSE MaxLose
  /\ UNCHANGED gameWin

HandleLoss(win) ==
  /\ amount' = IF CapExceeded(mm + 1) THEN start_bet
               ELSE amount + StakeIncrement(win)
  /\ mm' = IF CapExceeded(mm + 1) THEN 0 ELSE mm + 1
  /\ gameLose' = gameLose + 1
  /\ TempLose' = TempLose + win
  /\ MaxLose' = IF TempLose + win < MaxLose THEN TempLose + win ELSE MaxLose
  /\ UNCHANGED gameWin

\* the `else` branch of _handle_order_result
HandleWinKeepsStake(win) ==
  /\ mm' = 0
  /\ gameWin' = gameWin + 1
  /\ TempLose' = 0
  /\ UNCHANGED <<amount, gameLose, MaxLose>>

HandleWin(win) ==
  /\ amount' = start_bet
  /\ mm' = 0
  /\ gameWin' = gameWin + 1
  /\ TempLose' = 0
  /\ UNCHANGED <<gameLose, MaxLose>>

_handle_order_result(win) ==
  IF IsLoss(win) THEN HandleLoss(win) ELSE HandleWin(win)

\* ------------------------------------------------------ Market Data reply
CandleFields == {"open", "close", "min", "max", "id"}

Candle(o, c, i) ==
  [f \in CandleFields |->
     CASE f = "open" -> o
       [] f = "close" -> c
       [] f = "min" -> (IF o < c THEN o ELSE c)
       [] f = "max" -> (IF o < c THEN c ELSE o)
       [] OTHER -> i]

\* a candle whose 'open' key is absent
Truncated(cndl) == [f \in CandleFields \ {"open"} |-> cndl[f]]

Patterns == {"flat", "up", "down"}

PatternClose(pat, i) ==
  CASE pat = "flat" -> 10
    [] pat = "up" -> 10 + i
    [] OTHER -> 10 + MaxCandles + 2 - i

\* n candles following pat; the latest one opens at close - lastMove
Series(n, pat, lastMove) ==
  [i \in 1..n |->
     IF i = n THEN Candle(PatternClose(pat, i) - lastMove, PatternClose(pat, i), i)
     ELSE IF i = 1 THEN Candle(PatternClose(pat, 1), PatternClose(pat, 1), 1)
     ELSE Candle(PatternClose(pat, i - 1), PatternClose(pat, i), i)]

\* lengths around the two thresholds (MinRows, and Window + MinRows - 1)
ShortLens == {0, 1, Window}

LastMoves == {-1, 0, 1}

\* what account.get_candles may answer: an exception, a series too short
\* to analyse, a series long enough, or a series with a malformed candle
Replies ==
  {[kind |-> "error", data |-> <<>>]}
  \cup {[kind |-> "ok", data |-> Series(n, "up", 1)] : n \in ShortLens}
  \cup {[kind |-> "ok", data |-> Series(Window + 1, "up", mv)] : mv \in LastMoves}
  \cup {[kind |-> "ok", data |-> Series(MaxCandles, pat, 1)] : pat \in Patterns}
  \cup {[kind |-> "ok",
         data |-> [Series(MaxCandles, "up", 1) EXCEPT ![1] = Truncated(@)]]}

\* ------------------------------------------------------- _get_price_data
WellFormed(cndl) == CandleFields \subseteq DOMAIN cndl

Row(cndl) ==
  [open |-> cndl["open"], close |-> cndl["close"],
   low |-> cndl["min"], high |-> cndl["max"]]

\* a frame that silently leaves out the candles it cannot convert
GetPriceDataSkipsBad(reply) ==
  IF reply.kind # "ok" THEN <<>>
  ELSE SelectSeq([i \in 1..Len(reply.data) |->
                    IF WellFormed(reply.data[i]) THEN Row(reply.data[i])
                    ELSE [open |-> 0, close |-> 0, low |-> 0, high |-> -1]],
                 LAMBDA r : r.low <= r.high)

\* the DataFrame returned: one row per candle, or empty on any exception
GetPriceData(reply) ==
  IF reply.kind # "ok" THEN <<>>
  ELSE IF \E i \in 1..Len(reply.data) : ~WellFormed(reply.data[i]) THEN <<>>
  ELSE [i \in 1..Len(reply.data) |-> Row(reply.data[i])]

\* ----------------------------------------------------- Indicator Engine
\* sum of close over the Window rows ending at row t
WindowSum(frame, t) ==
  LET RECURSIVE Go(_, _)
      Go(i, k) == IF k = 0 THEN 0 ELSE frame[i].close + Go(i - 1, k - 1)
  IN Go(t, Window)

\* sum of close squared over the Window rows ending at row t
WindowSumSq(frame, t) ==
  LET RECURSIVE Go(_, _)
      Go(i, k) == IF k = 0 THEN 0
                  ELSE frame[i].close * frame[i].close + Go(i - 1, k - 1)
  IN Go(t, Window)

\* rolling(window=20) is NaN until 20 rows are available
HasBandsEarly(frame, t) == t >= Window - 1

HasBands(frame, t) == t >= Window

\* close.ewm(span, adjust=False).mean() at row t, in 1/1000 ticks
RECURSIVE Ema(_, _, _)
Ema(frame, span, t) ==
  IF t = 1 THEN frame[1].close * 1000
  ELSE ((span - 1) * Ema(frame, span, t - 1) + 2 * frame[t].close * 1000)
         \div (span + 1)

\* low > Lower_BB, with Lower_BB = SMA - 2 * STD (sample deviation)
AboveLowerBand(frame, t) ==
  LET S == WindowSum(frame, t)
      Q == WindowSumSq(frame, t)
      d == S - Window * frame[t].low
  IN d < 0 \/ (Window - 1) * d * d
                < BandMult * BandMult * Window * (Window * Q - S * S)

\* high < Upper_BB, with Upper_BB = SMA + 2 * STD
BelowUpperBand(frame, t) ==
  LET S == WindowSum(frame, t)
      Q == WindowSumSq(frame, t)
      e == Window * frame[t].high - S
  IN e < 0 \/ (Window - 1) * e * e
                < BandMult * BandMult * Window * (Window * Q - S * S)

\* price_data.dropna(): the indexes of the rows that keep all their fields
DropNa(frame) ==
  SelectSeq([k \in 1..Len(frame) |-> k], LAMBDA k : HasBands(frame, k))

\* ------------------------------------------------- Signal Decision Policy
SecondLast(frame) == DropNa(frame)[Len(DropNa(frame)) - 1]
\* third_last_row = price_data.iloc[-2]
ThirdLast(frame) == DropNa(frame)[Len(DropNa(frame)) - 1]
Latest(frame) == DropNa(frame)[Len(DropNa(frame))]

trendUp(frame) ==
  LET t == SecondLast(frame)
  IN Ema(frame, SpanBase, t) < Ema(frame, SpanTrend, t)
     /\ Ema(frame, SpanTrend, t) < Ema(frame, SpanCross, t)

trendDn(frame) ==
  LET t == SecondLast(frame)
  IN Ema(frame, SpanBase, t) > Ema(frame, SpanTrend, t)
     /\ Ema(frame, SpanTrend, t) > Ema(frame, SpanCross, t)

priceIn(frame) ==
  AboveLowerBand(frame, SecondLast(frame)) /\ BelowUpperBand(frame, SecondLast(frame))

crossOver(frame) ==
  /\ Ema(frame, SpanCross, ThirdLast(frame)) < Ema(frame, SpanTrend, ThirdLast(frame))
  /\ Ema(frame, SpanCross, SecondLast(frame)) > Ema(frame, SpanTrend, SecondLast(frame))

crossUnder(frame) ==
  /\ Ema(frame, SpanCross, ThirdLast(frame)) > Ema(frame, SpanTrend, ThirdLast(frame))
  /\ Ema(frame, SpanCross, SecondLast(frame)) < Ema(frame, SpanTrend, SecondLast(frame))

Signal_buy(frame) == trendUp(frame) /\ priceIn(frame) /\ crossOver(frame)
Signal_sell(frame) == trendDn(frame) /\ priceIn(frame) /\ crossUnder(frame)

\* the decision wired to the setup booleans (the commented-out lines 206-209)
DecideBySetup(frame) ==
  IF Signal_buy(frame) THEN "call"
  ELSE IF Signal_sell(frame) THEN "put"
  ELSE "none"

\* lines 202-211: the latest surviving row's close against its open
Decide(frame) ==
  LET latest_row == frame[Latest(frame)]
  IN IF latest_row.close > latest_row.open THEN "call"
     ELSE IF latest_row.close < latest_row.open THEN "put"
     ELSE "none"

\* _analyze_market: result "none" stands for the None it returns; exit names
\* the return statement taken (line 163, line 183, or the decision at 202-211)
AnalyzeMarket(reply) ==
  LET price_data == GetPriceData(reply)
  IN IF Len(price_data) < MinRows
       THEN [result |-> "none", exit |-> "too_short"]
     ELSE IF Len(DropNa(price_data)) < MinRows
       THEN [result |-> "none", exit |-> "few_rows"]
     ELSE [result |-> Decide(price_data), exit |-> "decided"]

\* ---------------------------------------------------------- Trading Loop
\* `if not direction`
NoSignalMissed(sig) == FALSE

NoSignal(sig) == sig = "none"

\* `if not status`
RejectedIgnored(st) == FALSE

Rejected(st) == st # "ok"

\* create_order lines 250-251: an exception escaping the handler instead
ExceptHandlerReraises == pc' = "crashed" /\ caught' = TRUE

\* create_order lines 250-251: `except Exception` logs and returns to run()
ExceptHandler == pc' = "sleep" /\ caught' = TRUE

\* self.account.get_candles: on a None account it can only raise
SessionReplies ==
  IF session = "null" THEN {[kind |-> "error", data |-> <<>>]} ELSE Replies

\* run() calls create_order(), whose first external call is get_candles
Fetch ==
  /\ pc = "loop"
  /\ \E reply \in SessionReplies : candles' = reply
  /\ pc' = "analyze"
  /\ UNCHANGED <<configVars, stakeVars, direction, analysis, signal, status, caught,
               interrupted, pending, abandoned, sent, hist>>

\* create_order lines 221-231: analysis, then return or keep the direction;
\* account.get_balance() of line 227 may raise before the direction is kept
Analyze ==
  /\ pc = "analyze"
  /\ signal' = AnalyzeMarket(candles).result
  /\ analysis' = AnalyzeMarket(candles).exit
  /\ IF NoSignal(signal')
       THEN pc' = "sleep" /\ UNCHANGED <<direction, caught>>
       ELSE \/ pc' = "buy" /\ direction' = signal' /\ UNCHANGED caught
            \/ ExceptHandler /\ UNCHANGED direction
  /\ UNCHANGED <<configVars, stakeVars, candles, status, interrupted, pending,
               abandoned, sent, hist>>

\* an accepted order that is not awaited
BuyNoWait ==
  /\ pc = "buy"
  /\ Len(sent) < MaxOrders
  /\ \E st \in {"ok", "rejected", "raised"} :
       /\ status' = IF st = "raised" THEN "none" ELSE st
       /\ IF st = "raised"
            THEN ExceptHandler /\ UNCHANGED <<pending, sent>>
            ELSE /\ IF Rejected(st)
                      THEN UNCHANGED <<pending, sent>>
                      ELSE pending' = pending + 1 /\ sent' = Append(sent, amount)
                 /\ pc' = "sleep"
                 /\ UNCHANGED caught
  /\ candles' = NoReply
  /\ UNCHANGED <<configVars, stakeVars, direction, analysis, signal, interrupted,
               abandoned, hist>>

\* an order sent with the configured starting stake
OrderStakeStart == start_bet

\* the first argument of account.buy, line 233
OrderStake == amount

\* create_order lines 232-246: account.buy returns a status, which is
\* checked, or raises
Buy ==
  /\ pc = "buy"
  /\ Len(sent) < MaxOrders
  /\ \E st \in {"ok", "rejected", "raised"} :
       /\ status' = IF st = "raised" THEN "none" ELSE st
       /\ IF st = "raised"
            THEN ExceptHandler /\ UNCHANGED <<pending, sent>>
            ELSE /\ IF Rejected(st)
                      THEN pc' = "sleep" /\ UNCHANGED <<pending, sent>>
                      ELSE /\ pc' = "wait"
                           /\ pending' = pending + 1
                           /\ sent' = Append(sent, OrderStake)
                 /\ UNCHANGED caught
  /\ candles' = NoReply
  /\ UNCHANGED <<configVars, stakeVars, direction, analysis, signal, interrupted,
               abandoned, hist>>

\* create_order line 248: check_win_v3 returns and the outcome is handled
Settle ==
  /\ pc = "wait"
  /\ \E win \in Outcomes :
       /\ _handle_order_result(win)
       /\ hist' = Append(hist, win)
  /\ pending' = pending - 1
  /\ pc' = "sleep"
  /\ UNCHANGED <<configVars, direction, candles, analysis, signal, status, caught,
               interrupted, abandoned, sent>>

\* create_order line 248: check_win_v3 raises, or returns a value that
\* `win < 0` cannot compare; nothing is handled and the order stays open
WaitFails ==
  /\ pc = "wait"
  /\ ExceptHandler
  /\ abandoned' = abandoned + 1
  /\ UNCHANGED <<configVars, stakeVars, direction, candles, analysis, signal, status,
               interrupted, pending, sent, hist>>

\* run() line 283: time.sleep(1), then the next iteration
Sleep ==
  /\ pc = "sleep"
  /\ pc' = "loop"
  /\ candles' = NoReply
  /\ analysis' = "none"
  /\ signal' = "none"
  /\ status' = "none"
  /\ caught' = FALSE
  /\ UNCHANGED <<configVars, stakeVars, direction, interrupted, pending, abandoned,
               sent, hist>>

\* a KeyboardInterrupt swallowed inside the iteration
InterruptSwallowed == pc' = "sleep" /\ caught' = TRUE

\* KeyboardInterrupt is no Exception: it passes the handlers of lines 152,
\* 213 and 250 and reaches `except KeyboardInterrupt` of run(), lines 284-285
Interrupt == pc' = "stopped" /\ caught' = FALSE

\* a KeyboardInterrupt delivered anywhere in the loop
Cancel ==
  /\ pc \in {"loop", "analyze", "buy", "wait", "sleep"}
  /\ interrupted' = TRUE
  /\ Interrupt
  /\ candles' = NoReply
  /\ analysis' = "none"
  /\ signal' = "none"
  /\ status' = "none"
  /\ abandoned' = IF pc = "wait" THEN abandoned + 1 ELSE abandoned
  /\ UNCHANGED <<configVars, stakeVars, direction, pending, sent, hist>>

Next == Fetch \/ Analyze \/ Buy \/ Settle \/ WaitFails \/ Sleep \/ Cancel

Spec == Init /\ [][Next]_vars

\* time.sleep(1) of run() line 283 returns; one cap is enough for progress
LiveInit == Init /\ max_martingel = 3

LiveSpec == LiveInit /\ [][Next]_vars /\ WF_vars(Sleep)

\* ---------------------------------------------------------------- startup
\* the process before IQOptionTrader.__init__ has read its configuration
StartInit ==
  /\ environ \in {"valid", "invalid"}
  /\ session = "none"
  /\ start_bet \in StartBets
  /\ max_martingel = 3
  /\ amount = 0
  /\ mm = 0
  /\ direction = "call"
  /\ TempLose = 0
  /\ MaxLose = 0
  /\ gameWin = 0
  /\ gameLose = 0
  /\ pc = "start"
  /\ candles = NoReply
  /\ analysis = "none"
  /\ signal = "none"
  /\ status = "none"
  /\ caught = FALSE
  /\ interrupted = FALSE
  /\ pending = 0
  /\ abandoned = 0
  /\ sent = <<>>
  /\ hist = <<>>

\* a configuration error that is logged and then ignored
ConfigErrorIgnored == pc' = "connect"

\* _load_config lines 98-99 log the error and return None; line 41 then
\* raises AttributeError, which leaves __init__ and ends the main thread
ConfigError == pc' = "crashed"

\* __init__ lines 40-44
LoadConfig ==
  /\ pc = "start"
  /\ IF environ = "valid"
       THEN /\ pc' = "connect"
            /\ amount' = start_bet
            /\ mm' = 0
            /\ direction' = "call"
       ELSE ConfigError /\ UNCHANGED <<amount, mm, direction>>
  /\ UNCHANGED <<configVars, TempLose, MaxLose, gameWin, gameLose, candles, analysis,
               signal, status, caught, interrupted, pending, abandoned, sent, hist>>

\* __init__ lines 46-54: _initialize_connection never raises and never
\* stops the construction.  "ok": connect() succeeded; "failed": connect()
\* returned False or raised, the account object exists; "null": IQ_Option()
\* raised and self.account is still None
Connect ==
  /\ pc = "connect"
  /\ \E s \in {"ok", "failed", "null"} : session' = s
  /\ TempLose' = 0
  /\ MaxLose' = 0
  /\ gameWin' = 0
  /\ gameLose' = 0
  /\ pc' = "loop"
  /\ UNCHANGED <<environ, start_bet, max_martingel, amount, mm, direction, candles,
               analysis, signal, status, caught, interrupted, pending, abandoned,
               sent, hist>>

StartNext == LoadConfig \/ Connect \/ Next

StartSpec == StartInit /\ [][StartNext]_vars

TypeOK ==
  /\ environ = "valid" /\ session = "ok"
  /\ start_bet \in StartBets
  /\ max_martingel \in MaxMartingels
  /\ amount \in Int /\ mm \in Nat
  /\ direction \in {"call", "put"}
  /\ analysis \in {"none", "too_short", "few_rows", "decided"}
  /\ signal \in {"none", "call", "put"}
  /\ status \in {"none", "ok", "rejected"}
  /\ pc \in {"loop", "analyze", "buy", "wait", "sleep", "stopped"}
  /\ caught \in BOOLEAN /\ interrupted \in BOOLEAN
  /\ pending \in Nat /\ abandoned \in Nat

\* ================================================================ claims
\* a step that settles an order, and the profit/loss it settles with
Settles == Len(hist') = Len(hist) + 1
Outcome == hist'[Len(hist')]

\* the number of losses at the end of h
RECURSIVE TrailingLosses(_)
TrailingLosses(h) ==
  IF h = <<>> \/ h[Len(h)] >= 0 THEN 0
  ELSE 1 + TrailingLosses(SubSeq(h, 1, Len(h) - 1))

\* |w| + 0.15 |w| in units of 1/100000
Recovery(w) == Abs(w) * 115

\* C1 as stated: on a loss that does not exceed the cap the stake becomes
\* round(stake + |loss| + 0.15 |loss|), the rounding applied to the whole sum
C1_AsStated ==
  [][(Settles /\ Outcome < 0 /\ mm + 1 <= max_martingel) =>
       /\ amount' = Round(amount * 100000 + Recovery(Outcome), 100000)
       /\ mm' = mm + 1
       /\ gameLose' = gameLose + 1
       /\ TempLose' = TempLose + Outcome]_vars

\* C1 amended: on a loss that does not exceed the cap the stake grows by
\* round(|loss| + 0.15 |loss|), the increment alone rounded half-to-even;
\* the depth and the loss count grow by 1 and the running total by the loss
C1_LossLadder ==
  [][(Settles /\ Outcome < 0 /\ mm + 1 <= max_martingel) =>
       /\ amount' = amount + Round(Recovery(Outcome), 100000)
       /\ mm' = mm + 1
       /\ gameLose' = gameLose + 1
       /\ TempLose' = TempLose + Outcome]_vars

\* a loss of 10 taken at the odd stake 35: 35 + round(11.5) = 47
C1_Witness ==
  /\ Len(hist) = 3 /\ hist[3] = -10000
  /\ mm = 3 /\ amount = 47 /\ gameLose = 3

\* C2: every settled outcome >= 0 resets stake, depth and running total,
\* counts one win, and leaves the loss count and the worst total alone
C2_WinResets ==
  [][(Settles /\ Outcome >= 0) =>
       /\ amount' = start_bet
       /\ mm' = 0
       /\ TempLose' = 0
       /\ gameWin' = gameWin + 1
       /\ gameLose' = gameLose
       /\ MaxLose' = MaxLose]_vars

\* a zero outcome settled right after a loss
C2_Witness ==
  /\ Len(hist) >= 2
  /\ hist[Len(hist) - 1] < 0 /\ hist[Len(hist)] = 0
  /\ amount = start_bet /\ mm = 0 /\ TempLose = 0 /\ MaxLose < 0
  /\ gameWin >= 1

\* C3: a loss taking the depth above the cap ends at stake = start and
\* depth = 0 and is still counted; a loss within the cap resets nothing; so
\* the depth is the current loss streak modulo (cap + 1)
C3_CapEnforcement ==
  /\ [][(Settles /\ Outcome < 0) =>
          /\ gameLose' = gameLose + 1
          /\ TempLose' = TempLose + Outcome
          /\ IF mm + 1 > max_martingel
               THEN amount' = start_bet /\ mm' = 0
               ELSE amount' >= amount /\ mm' = mm + 1]_vars
  /\ [](mm = TrailingLosses(hist) % (max_martingel + 1))

\* cap + 1 losses in a row from the start, for a cap of 3
C3_Witness ==
  /\ max_martingel = 3
  /\ Len(hist) = 4 /\ TrailingLosses(hist) = 4
  /\ mm = 0 /\ amount = start_bet /\ gameLose = 4 /\ TempLose < 0

\* the end-to-end scenario: start 10, cap 3, every order settled
Scenario == start_bet = 10 /\ max_martingel = 3 /\ abandoned = 0
ScenarioLosses == <<-10000, -11500, -13225>>

\* C4 as stated: the second order of the scenario is placed at stake 21
C4_AsStated ==
  Scenario =>
    /\ (Len(sent) >= 1 => sent[1] = 10)
    /\ (hist = SubSeq(ScenarioLosses, 1, 1) => amount = 21)
    /\ (hist = ScenarioLosses => mm = 3 /\ amount > start_bet)
    /\ (Len(hist) = 4 /\ SubSeq(hist, 1, 3) = ScenarioLosses /\ hist[4] < 0
          => amount = 10 /\ mm = 0)

\* C4 amended: the stakes of the scenario are 10, 22, 35 and 50; the third
\* loss leaves depth 3 and a fourth loss resets to stake 10, depth 0
C4_Scenario ==
  Scenario =>
    /\ (Len(sent) >= 1 => sent[1] = 10)
    /\ (hist = SubSeq(ScenarioLosses, 1, 1) => amount = 22 /\ mm = 1)
    /\ (hist = SubSeq(ScenarioLosses, 1, 1) /\ Len(sent) = 2 => sent[2] = 22)
    /\ (hist = SubSeq(ScenarioLosses, 1, 2) => amount = 35 /\ mm = 2)
    /\ (hist = ScenarioLosses => amount = 50 /\ mm = 3)
    /\ (Len(hist) = 4 /\ SubSeq(hist, 1, 3) = ScenarioLosses /\ hist[4] < 0
          => amount = 10 /\ mm = 0)

\* the scenario played to its fourth loss
C4_Witness ==
  /\ Scenario
  /\ Len(hist) = 4 /\ SubSeq(hist, 1, 3) = ScenarioLosses /\ hist[4] < 0
  /\ sent = <<10, 22, 35, 50>>
  /\ amount = 10 /\ mm = 0

\* C5 as stated: baseline, or recovering with stake > start
C5_AsStated ==
  \/ mm = 0 /\ amount = start_bet
  \/ mm > 0 /\ amount > start_bet

\* the losses of the current ladder
Ladder == {hist[i] : i \in (Len(hist) - mm + 1)..Len(hist)}

\* C5 amended: baseline, or recovering with stake >= start; the stake is
\* above start exactly when a loss of the ladder is larger than 0.5 / 1.15
C5_TwoStates ==
  /\ mm >= 0
  /\ mm = 0 => amount = start_bet
  /\ mm > 0 =>
       /\ amount >= start_bet
       /\ mm <= Len(hist)
       /\ amount > start_bet <=> \E w \in Ladder : 2 * Recovery(w) > 100000

\* recovering at the start stake after a loss of 0.2
C5_Witness ==
  /\ mm > 0 /\ amount = start_bet
  /\ hist[Len(hist)] = -200

\* what no step of a cycle without an order may touch
orderVars == <<amount, mm, TempLose, MaxLose, gameWin, gameLose, pending, sent, hist>>

\* C6: every step of a cycle whose analysis yields no signal (the fetch,
\* the analysis, the delay) leaves the Stake State unchanged and places no
\* order, and such an analysis, unless interrupted, ends the cycle
C6_NoSignalFrame ==
  [][(\/ pc = "loop"
      \/ pc = "analyze" /\ signal' = "none"
      \/ pc = "sleep" /\ signal = "none")
       => /\ UNCHANGED orderVars
          /\ (pc = "analyze" /\ ~interrupted') => pc' = "sleep"]_vars

\* a no-signal cycle on a long series, in the middle of a ladder
C6_Witness ==
  /\ pc = "sleep" /\ signal = "none" /\ analysis = "decided"
  /\ mm > 0 /\ amount > start_bet /\ TempLose < 0

\* C7: a rejected order ends the cycle with no outcome awaited and no Stake
\* State change, and the delay, unless interrupted, then leads to the next
\* iteration unchanged
C7_RejectionFrame ==
  [][/\ (pc = "buy" /\ status' = "rejected")
          => pc' = "sleep" /\ ~caught' /\ UNCHANGED orderVars
     /\ (pc = "sleep" /\ status = "rejected")
          => (interrupted' \/ pc' = "loop") /\ UNCHANGED orderVars]_vars

\* an order rejected in the middle of a ladder
C7_Witness ==
  /\ pc = "sleep" /\ status = "rejected"
  /\ pending = 0 /\ mm > 0 /\ Len(sent) = Len(hist)

\* a reply that reaches the decision step: every candle well formed and at
\* least MinRows rows left once the first Window - 1 are dropped
ReachesDecision(reply) ==
  /\ reply.kind = "ok"
  /\ \A i \in 1..Len(reply.data) : CandleFields \subseteq DOMAIN reply.data[i]
  /\ Len(reply.data) >= Window + MinRows - 1

LatestCandle(reply) == reply.data[Len(reply.data)]

\* C8: when the analysis reaches the decision step its result is fixed by
\* the latest candle alone: close > open call, close < open put, equal none
C8_LatestRowDecides ==
  (pc \in {"buy", "sleep"} /\ ReachesDecision(candles)) =>
    /\ analysis = "decided"
    /\ signal = IF LatestCandle(candles)["close"] > LatestCandle(candles)["open"]
                  THEN "call"
                ELSE IF LatestCandle(candles)["close"] < LatestCandle(candles)["open"]
                  THEN "put"
                ELSE "none"

\* a put decided while the trend is up and the price is inside the bands
C8_Witness ==
  /\ pc = "buy" /\ signal = "put" /\ ReachesDecision(candles)
  /\ trendUp(GetPriceData(candles)) /\ priceIn(GetPriceData(candles))
  /\ ~Signal_sell(GetPriceData(candles))

\* an empty, too short or malformed series, or a failed fetch
DataError(reply) ==
  \/ reply.kind = "error"
  \/ /\ reply.kind = "ok"
     /\ \/ Len(reply.data) < 2
        \/ \E i \in 1..Len(reply.data) : ~(CandleFields \subseteq DOMAIN reply.data[i])

\* C9: on a data error the analysis returns no signal before the decision
\* step, the cycle places no order and changes no Stake State, and the
\* delay leads to the next iteration (each step unless interrupted)
C9_DataErrorSkips ==
  [][/\ (pc = "analyze" /\ DataError(candles))
          => /\ UNCHANGED orderVars
             /\ ~interrupted' => /\ analysis' = "too_short" /\ signal' = "none"
                                  /\ pc' = "sleep" /\ ~caught'
     /\ (pc = "sleep" /\ DataError(candles))
          => (interrupted' \/ pc' = "loop") /\ UNCHANGED orderVars]_vars

\* a cycle skipped on a malformed candle, in the middle of a ladder
C9_Witness ==
  /\ pc = "sleep" /\ candles.kind = "ok" /\ Len(candles.data) >= Window + 1
  /\ \E i \in 1..Len(candles.data) : "open" \notin DOMAIN candles.data[i]
  /\ analysis = "too_short" /\ signal = "none" /\ mm > 0

\* C10 as stated: at every moment at most one order is placed and unsettled
C10_AsStated == pending <= 1

\* C10 amended: the loop awaits at most one order and places none while it
\* waits; a wait ends by a settlement, a failure or an interrupt, and the
\* open orders are the awaited one and those whose wait ended without outcome
C10_Sequential ==
  /\ [](/\ pending = abandoned + (IF pc = "wait" THEN 1 ELSE 0)
        /\ Len(sent) = Len(hist) + pending)
  /\ [][/\ Len(sent') > Len(sent) => pc = "buy" /\ pc' = "wait"
        /\ pc = "wait" => sent' = sent /\ (Settles \/ caught' \/ interrupted')
        /\ abandoned' # abandoned
             => /\ pc = "wait" /\ abandoned' = abandoned + 1
                /\ caught' \/ interrupted']_vars

\* the loop waiting for its second order
C10_Witness ==
  /\ pc = "wait" /\ pending = 1 /\ Len(sent) = 2 /\ Len(hist) = 1

\* C11: a failure raised inside an iteration (after the analysis, in the
\* order placement, in the outcome wait or its handling) is caught inside
\* create_order: it changes no Stake State, leaves the loop at its delay,
\* and the next iteration then starts unless the loop is interrupted
C11_FailureIsolated ==
  /\ [][(caught' /\ ~caught)
          => /\ pc \in {"analyze", "buy", "wait"}
             /\ pc' = "sleep"
             /\ UNCHANGED <<amount, mm, TempLose, MaxLose, gameWin, gameLose, sent, hist>>]_vars
  /\ [](caught => pc = "sleep")
  /\ (caught ~> (pc = "loop" \/ interrupted))

\* an outcome wait that failed in the middle of a ladder
C11_Witness ==
  /\ caught /\ pc = "sleep" /\ status = "ok"
  /\ abandoned = 1 /\ pending = 1 /\ mm > 0

\* C12: an interrupt delivered anywhere in the loop stops it: it is never
\* taken for an iteration failure, and once stopped no order is placed and
\* no Stake State changes
C12_CancelStops ==
  /\ [](interrupted => pc = "stopped" /\ ~caught)
  /\ [][interrupted' /\ ~interrupted
          => /\ pc \in {"loop", "analyze", "buy", "wait", "sleep"}
             /\ UNCHANGED orderVars]_vars
  /\ [][interrupted => UNCHANGED <<pc, amount, mm, TempLose, MaxLose, gameWin,
                                   gameLose, pending, sent, hist>>]_vars

\* the loop interrupted while it waited for an outcome, in a ladder
C12_Witness ==
  /\ interrupted /\ pc = "stopped"
  /\ pending = 1 /\ abandoned = 1 /\ mm > 0 /\ Len(sent) = Len(hist) + 1

\* C13: with a missing or unparseable setting the construction fails before
\* the connection is attempted: no session, no loop, no order
C13_ConfigErrorFatal ==
  environ = "invalid" =>
    /\ pc \in {"start", "crashed"}
    /\ session = "none"
    /\ sent = <<>> /\ hist = <<>> /\ pending = 0

\* the construction ended by a configuration error
C13_Witness == environ = "invalid" /\ pc = "crashed" /\ session = "none"

\* C14 as stated: after a failed connection no order is ever placed and the
\* Stake State stays at its initial baseline
C14_AsStated ==
  session \in {"failed", "null"} =>
    /\ sent = <<>>
    /\ amount = start_bet /\ mm = 0
    /\ TempLose = 0 /\ MaxLose = 0 /\ gameWin = 0 /\ gameLose = 0

\* the running loss total after the first n outcomes of h: a loss adds to it,
\* any other outcome clears it
RECURSIVE RunAfter(_, _)
RunAfter(h, n) ==
  IF n = 0 THEN 0
  ELSE IF h[n] < 0 THEN RunAfter(h, n - 1) + h[n] ELSE 0

\* the least value the running loss total has taken over the first n outcomes
RECURSIVE MinRun(_, _)
MinRun(h, n) ==
  IF n = 0 THEN 0
  ELSE IF RunAfter(h, n) < MinRun(h, n - 1) THEN RunAfter(h, n)
       ELSE MinRun(h, n - 1)

\* C15: in every state MaxLose <= TempLose <= 0, TempLose is the running
\* total of the losses since the last win, MaxLose is the least value that
\* running total has taken since start, and no step increases MaxLose.
C15_WorstTracksRunning ==
  /\ [](/\ MaxLose <= TempLose
        /\ TempLose <= 0
        /\ TempLose = RunAfter(hist, Len(hist))
        /\ MaxLose = MinRun(hist, Len(hist)))
  /\ [][MaxLose' <= MaxLose]_vars

\* a win has cleared a two-loss streak whose total stays recorded, and a new
\* shallower streak is running
C15_Witness ==
  /\ Len(hist) = 4
  /\ hist[1] < 0 /\ hist[2] < 0 /\ hist[3] >= 0 /\ hist[4] < 0
  /\ MaxLose = hist[1] + hist[2]
  /\ TempLose = hist[4]
  /\ MaxLose < TempLose

\* C16: an iteration that fetched fewer than 21 candles is left with fewer
\* than 2 usable rows, reports insufficient data and goes to the delay with
\* no order placed and no order state changed; an iteration that fetched 21
\* or more well-formed candles reaches the decision step.
C16_WarmupGates ==
  [][(pc = "analyze" /\ ~interrupted' /\ candles.kind = "ok") =>
       /\ Len(candles.data) < 21 =>
            /\ Len(DropNa(GetPriceData(candles))) < 2
            /\ analysis' \in {"too_short", "few_rows"}
            /\ signal' = "none"
            /\ pc' = "sleep"
            /\ UNCHANGED orderVars
       /\ (/\ Len(candles.data) >= 21
           /\ \A i \in 1..Len(candles.data) : WellFormed(candles.data[i]))
            => analysis' = "decided"]_vars

\* twenty candles passed the length check and left one usable row
C16_Witness ==
  /\ pc = "sleep"
  /\ candles.kind = "ok"
  /\ Len(candles.data) = 20
  /\ Len(DropNa(GetPriceData(candles))) = 1
  /\ analysis = "few_rows"
  /\ sent = <<>>

\* the stake and the depth after the first n outcomes of h, starting from
\* the starting stake at depth 0
RECURSIVE StakeAfter(_, _)
StakeAfter(h, n) ==
  IF n = 0 THEN [amount |-> start_bet, mm |-> 0]
  ELSE LET before == StakeAfter(h, n - 1)
       IN IF h[n] < 0 /\ before.mm + 1 <= max_martingel
            THEN [amount |-> before.amount + Round(Recovery(h[n]), 100 * 1000),
                  mm |-> before.mm + 1]
          ELSE [amount |-> start_bet, mm |-> 0]

\* the steps of an iteration, in order
StepOrder ==
  {<<"loop", "analyze">>, <<"analyze", "buy">>, <<"analyze", "sleep">>,
   <<"buy", "wait">>, <<"buy", "sleep">>, <<"wait", "sleep">>,
   <<"sleep", "loop">>}

\* C17: an iteration goes through analysis, order placement, outcome wait,
\* stake update and delay in this order (leaving out the steps it skips);
\* the stake state changes only in the step that ends the outcome wait with
\* a settled outcome; and the stake sent with an order is the stake
\* obtained by applying all outcomes settled so far, in order.
C17_StepOrder ==
  [][/\ (pc' # pc /\ ~interrupted') => <<pc, pc'>> \in StepOrder
     /\ stakeVars' # stakeVars => pc = "wait" /\ pc' = "sleep" /\ Settles
     /\ Settles => pc = "wait" /\ pc' = "sleep" /\ sent' = sent
     /\ Len(sent') > Len(sent)
          => /\ pc = "buy" /\ pc' = "wait" /\ hist' = hist
             /\ Len(sent') = Len(sent) + 1
             /\ sent'[Len(sent')] = amount
             /\ sent'[Len(sent')] = StakeAfter(hist, Len(hist)).amount]_vars

\* the third order is being awaited with a stake raised by the two losses
\* settled before it
C17_Witness ==
  /\ pc = "wait"
  /\ Len(sent) = 3 /\ Len(hist) = 2
  /\ hist[1] < 0 /\ hist[2] < 0
  /\ sent[3] = StakeAfter(hist, 2).amount
  /\ sent[3] > sent[2] /\ sent[2] > sent[1]

\* C18: with a cap of 0 or more, the ladder depth lies between 0 and the cap
\* in every state between two steps of the loop, in particular whenever an
\* order is about to be placed or is awaited.
C18_DepthWithinCap ==
  max_martingel >= 0 => 0 <= mm /\ mm <= max_martingel

\* an order placed at the deepest depth the cap allows is awaited
C18_Witness ==
  /\ max_martingel = 3 /\ mm = max_martingel
  /\ pc = "wait"
  /\ Len(sent) = Len(hist) + 1
  /\ TrailingLosses(hist) = 3

\* C19: the stake is a whole number never below the starting stake; a loss
\* that does not exceed the cap never lowers it; and the only steps that
\* lower it are the handling of a win and of a loss that exceeds the cap,
\* which both put it back to exactly the starting stake.
C19_StakeFloor ==
  /\ [](amount \in Int /\ amount >= start_bet)
  /\ [][/\ (Settles /\ Outcome < 0 /\ mm + 1 <= max_martingel)
            => amount' >= amount
        /\ amount' < amount
            => /\ Settles
               /\ amount' = start_bet
               /\ Outcome >= 0 \/ mm + 1 > max_martingel]_vars

\* two losses raised the stake twice and a win put it back
C19_Witness ==
  /\ Len(hist) = 3 /\ hist[1] < 0 /\ hist[2] < 0 /\ hist[3] > 0
  /\ Len(sent) = 3
  /\ sent[1] = start_bet /\ sent[2] > sent[1] /\ sent[3] > sent[2]
  /\ amount = start_bet

\* the sum of the losses at the end of h
RECURSIVE TrailingLossSum(_)
TrailingLossSum(h) ==
  IF h = <<>> \/ h[Len(h)] >= 0 THEN 0
  ELSE h[Len(h)] + TrailingLossSum(SubSeq(h, 1, Len(h) - 1))

\* C20: the handling of a loss that exceeds the cap puts the stake back to
\* the starting stake and the depth to 0 and resets nothing else: the
\* running loss total takes the loss like after any other loss, the loss is
\* counted, and the win count and the configuration stay; so the running
\* loss total is always the sum of all losses since the last win, however
\* many cap resets lie between.
C20_CapResetFrame ==
  /\ [][(Settles /\ Outcome < 0 /\ mm + 1 > max_martingel) =>
          /\ amount' = start_bet /\ mm' = 0
          /\ TempLose' = TempLose + Outcome /\ TempLose' < 0
          /\ MaxLose' <= TempLose'
          /\ gameLose' = gameLose + 1
          /\ UNCHANGED <<gameWin, configVars, direction, sent>>]_vars
  /\ [](TempLose = TrailingLossSum(hist))

\* at a cap of 0 two losses caused two cap resets: the stake and the depth
\* are at baseline and the running loss total holds both losses
C20_Witness ==
  /\ max_martingel = 0
  /\ Len(hist) = 2 /\ hist[1] < 0 /\ hist[2] < 0
  /\ mm = 0 /\ amount = start_bet
  /\ TempLose = hist[1] + hist[2] /\ TempLose < 0

====
